---- MODULE Spec2Model ----
(***************************************************************************)
(* Validated configuration loading of nestjs-zod-config.                   *)
(*                                                                         *)
(* configFactory reads seven variables of process.env, parses them with    *)
(* configSchema and either returns the typed Config or throws a            *)
(* ConfigException.  ConfigModule registers configFactory as a load        *)
(* factory, bootstrap() creates the application, logs three values read    *)
(* through ConfigService.get and calls app.listen.                         *)
(*                                                                         *)
(* A JavaScript string is a sequence of one-character strings; a           *)
(* JavaScript number is a record [k, m, e]: k = "nan", k = "inf" (m is the *)
(* sign) or k = "fin" with value m / 10^e, e >= 0, normalised so that the  *)
(* value is an integer exactly when e = 0.                                 *)
(***************************************************************************)
EXTENDS Integers, Sequences, FiniteSets, TLC

VARIABLES env, pc, host, thrown, loads, logged, listenPort, lastGet, gets

vars == <<env, pc, host, thrown, loads, logged, listenPort, lastGet, gets>>

-----------------------------------------------------------------------------
(* Bounds *)

\* accessor calls made by consumers once the application listens
MaxGets == 2

\* direct invocations of configFactory in the loader specification
MaxLoads == 2

-----------------------------------------------------------------------------
(* JavaScript values *)

NaN == [k |-> "nan", m |-> 0, e |-> 0]

Infinity(sign) == [k |-> "inf", m |-> sign, e |-> 0]

RECURSIVE Pow(_, _)
Pow(b, n) == IF n = 0 THEN 1 ELSE b * Pow(b, n - 1)

\* m / 10^e with the trailing zeros of the fraction removed
RECURSIVE Normalise(_, _)
Normalise(m, e) ==
    IF e > 0 /\ m % 10 = 0 THEN Normalise(m \div 10, e - 1)
    ELSE [k |-> "fin", m |-> m, e |-> e]

\* sign * mant * 10^(-scale)
Finite(sign, mant, scale) ==
    IF scale <= 0 THEN [k |-> "fin", m |-> sign * mant * Pow(10, 0 - scale), e |-> 0]
    ELSE LET n == Normalise(mant, scale)
         IN  [k |-> "fin", m |-> sign * n.m, e |-> n.e]

DecimalDigits == {"0", "1", "2", "3", "4", "5", "6", "7", "8", "9"}

HexDigits == DecimalDigits \cup {"a", "b", "c", "d", "e", "f", "A", "B", "C", "D", "E", "F"}

DigitValue(c) ==
    CASE c = "0" -> 0 [] c = "1" -> 1 [] c = "2" -> 2 [] c = "3" -> 3
      [] c = "4" -> 4 [] c = "5" -> 5 [] c = "6" -> 6 [] c = "7" -> 7
      [] c = "8" -> 8 [] c = "9" -> 9
      [] c \in {"a", "A"} -> 10 [] c \in {"b", "B"} -> 11
      [] c \in {"c", "C"} -> 12 [] c \in {"d", "D"} -> 13
      [] c \in {"e", "E"} -> 14 [] c \in {"f", "F"} -> 15

\* the mathematical value of a digit sequence in the given radix
RECURSIVE DigitsValue(_, _)
DigitsValue(ds, radix) ==
    IF ds = <<>> THEN 0
    ELSE DigitsValue(SubSeq(ds, 1, Len(ds) - 1), radix) * radix + DigitValue(ds[Len(ds)])

WhiteSpace == {" ", "\t", "\n", "\r"}

\* length of the longest prefix of s made of characters of set
PrefixLen(s, set) ==
    CHOOSE i \in 0..Len(s) :
        /\ \A j \in 1..i : s[j] \in set
        /\ (i = Len(s) \/ s[i + 1] \notin set)

SuffixLen(s, set) ==
    CHOOSE i \in 0..Len(s) :
        /\ \A j \in (Len(s) - i + 1)..Len(s) : s[j] \in set
        /\ (i = Len(s) \/ s[Len(s) - i] \notin set)

Drop(s, n) == SubSeq(s, n + 1, Len(s))

Trim(s) ==
    LET a == PrefixLen(s, WhiteSpace)
        r == Drop(s, a)
    IN  SubSeq(r, 1, Len(r) - SuffixLen(r, WhiteSpace))

AllIn(s, set) == \A j \in 1..Len(s) : s[j] \in set

InfinityLiteral == <<"I", "n", "f", "i", "n", "i", "t", "y">>

RadixDigits(radix) ==
    CASE radix = 16 -> HexDigits
      [] radix = 8 -> {"0", "1", "2", "3", "4", "5", "6", "7"}
      [] radix = 2 -> {"0", "1"}

\* 0x / 0o / 0b literal: no sign, at least one digit
NonDecimalLiteral(t) ==
    LET radix == CASE t[2] \in {"x", "X"} -> 16
                   [] t[2] \in {"o", "O"} -> 8
                   [] t[2] \in {"b", "B"} -> 2
        ds == Drop(t, 2)
    IN  IF ds # <<>> /\ AllIn(ds, RadixDigits(radix))
        THEN Finite(1, DigitsValue(ds, radix), 0)
        ELSE NaN

\* the exponent part after e / E: [+-] digits, nothing else
ExponentPart(sign, mantissa, fractionDigits, y) ==
    LET esigned == y # <<>> /\ y[1] \in {"+", "-"}
        esign == IF esigned /\ y[1] = "-" THEN 0 - 1 ELSE 1
        z == IF esigned THEN Drop(y, 1) ELSE y
    IN  IF z = <<>> \/ ~AllIn(z, DecimalDigits) THEN NaN
        ELSE Finite(sign, DigitsValue(mantissa, 10), fractionDigits - esign * DigitsValue(z, 10))

\* what follows the integer and fraction digits: nothing, or an exponent
AfterDigits(sign, ip, fp, x) ==
    IF Len(ip) + Len(fp) = 0 THEN NaN
    ELSE IF x = <<>> THEN Finite(sign, DigitsValue(ip \o fp, 10), Len(fp))
    ELSE IF x[1] \in {"e", "E"} THEN ExponentPart(sign, ip \o fp, Len(fp), Drop(x, 1))
    ELSE NaN

\* what follows the integer digits: an optional "." and fraction digits
AfterInteger(sign, ip, v) ==
    IF v # <<>> /\ v[1] = "."
    THEN LET w == Drop(v, 1)
             nf == PrefixLen(w, DecimalDigits)
         IN  AfterDigits(sign, ip, SubSeq(w, 1, nf), Drop(w, nf))
    ELSE AfterDigits(sign, ip, <<>>, v)

UnsignedDecimal(sign, u) ==
    LET ni == PrefixLen(u, DecimalDigits)
    IN  IF u = InfinityLiteral THEN Infinity(sign)
        ELSE AfterInteger(sign, SubSeq(u, 1, ni), Drop(u, ni))

\* [+-] (Infinity | digits [. digits] | . digits) [(e|E) [+-] digits]
DecimalLiteral(t) ==
    IF t[1] = "-" THEN UnsignedDecimal(0 - 1, Drop(t, 1))
    ELSE IF t[1] = "+" THEN UnsignedDecimal(1, Drop(t, 1))
    ELSE UnsignedDecimal(1, t)

\* Number(string): StringToNumber of ECMAScript
StringToNumber(s) ==
    LET t == Trim(s)
    IN  IF t = <<>> THEN Finite(1, 0, 0)
        ELSE IF Len(t) >= 2 /\ t[1] = "0" /\ t[2] \in {"x", "X", "o", "O", "b", "B"}
             THEN NonDecimalLiteral(t)
        ELSE DecimalLiteral(t)

-----------------------------------------------------------------------------
(* zod: issues, primitive schemas *)

Issue(code, path) == [code |-> code, path |-> path]

\* the parse of one value: status "valid", "dirty" (checks failed) or "aborted"
Valid(value) == [status |-> "valid", value |-> value, issues |-> <<>>]

NoValue == [none |-> TRUE]

Invalid(issues) == [status |-> "aborted", value |-> NoValue, issues |-> issues]

\* a property of an object literal: process.env.X is a string or undefined
Undefined == [defined |-> FALSE, s |-> <<>>]

Defined(s) == [defined |-> TRUE, s |-> s]

\* z.enum(options)
ZodEnum(options, input, path) ==
    IF ~input.defined THEN Invalid(<<Issue("invalid_type", path)>>)
    ELSE IF input.s \notin options THEN Invalid(<<Issue("invalid_enum_value", path)>>)
    ELSE Valid(input.s)

\* z.string().min(minLength)
ZodString(minLength, input, path) ==
    IF ~input.defined THEN Invalid(<<Issue("invalid_type", path)>>)
    ELSE IF Len(input.s) < minLength
         THEN [status |-> "dirty", value |-> input.s, issues |-> <<Issue("too_small", path)>>]
    ELSE Valid(input.s)

\* Number(input.data) of z.coerce: Number(undefined) is NaN
Coerce(input) == IF input.defined THEN StringToNumber(input.s) ELSE NaN

\* the checks of a ZodNumber
MinCheck(value, inclusive) == [kind |-> "min", value |-> value, inclusive |-> inclusive]

IntCheck == [kind |-> "int", value |-> 0, inclusive |-> TRUE]

\* n >= value (inclusive) or n > value, for an integer bound
AtLeast(n, value, inclusive) ==
    CASE n.k = "inf" -> n.m > 0
      [] n.k = "fin" -> IF inclusive THEN n.m >= value * Pow(10, n.e)
                        ELSE n.m > value * Pow(10, n.e)

\* Number.isInteger
IsInteger(n) == n.k = "fin" /\ n.e = 0

\* the issue a failed check adds, <<>> when the check passes
CheckIssue(check, n, path) ==
    CASE check.kind = "min" ->
            IF AtLeast(n, check.value, check.inclusive) THEN <<>>
            ELSE <<Issue("too_small", path)>>
      [] check.kind = "int" ->
            IF IsInteger(n) THEN <<>> ELSE <<Issue("invalid_type", path)>>

RECURSIVE CheckIssues(_, _, _)
CheckIssues(checks, n, path) ==
    IF checks = <<>> THEN <<>>
    ELSE CheckIssue(Head(checks), n, path) \o CheckIssues(Tail(checks), n, path)

\* a number that went through its checks: dirty when one of them failed
Checked(n, issues) ==
    IF issues # <<>> THEN [status |-> "dirty", value |-> n, issues |-> issues]
    ELSE Valid(n)

\* a ZodNumber on n: NaN is no number; otherwise every check is run
ZodNumber(checks, n, path) ==
    IF n.k = "nan" THEN Invalid(<<Issue("invalid_type", path)>>)
    ELSE Checked(n, CheckIssues(checks, n, path))

\* z.coerce.number() followed by checks
ZodCoerceNumber(checks, input, path) == ZodNumber(checks, Coerce(input), path)

-----------------------------------------------------------------------------
(* config.schema.ts *)

development == <<"d", "e", "v", "e", "l", "o", "p", "m", "e", "n", "t">>

production == <<"p", "r", "o", "d", "u", "c", "t", "i", "o", "n">>

EnvironmentOptionsWithStaging ==
    {development, production, <<"s", "t", "a", "g", "i", "n", "g">>}

EnvironmentOptions == {development, production}

\* z.enum(['development', 'production'])
environmentSchema(input, path) == ZodEnum(EnvironmentOptions, input, path)

\* z.string(), without min(1)
AnyString(input, path) == ZodString(0, input, path)

\* z.string().min(1)
NonEmptyString(input, path) == ZodString(1, input, path)

\* z.coerce.number().min(1)
DatabasePortChecks == <<MinCheck(1, TRUE)>>

\* z.coerce.number().positive(), without int()
PortChecksNoInt == <<MinCheck(0, FALSE)>>

\* z.coerce.number().positive().int()
PortChecks == <<MinCheck(0, FALSE), IntCheck>>

\* the issues of the properties of an object, in the order of its shape
RECURSIVE CollectIssues(_, _)
CollectIssues(shape, results) ==
    IF shape = <<>> THEN <<>>
    ELSE results[Head(shape)].issues \o CollectIssues(Tail(shape), results)

\* the issues of the first property of the shape that has any
RECURSIVE FirstIssues(_, _)
FirstIssues(shape, results) ==
    IF shape = <<>> THEN <<>>
    ELSE IF results[Head(shape)].issues # <<>> THEN results[Head(shape)].issues
    ELSE FirstIssues(Tail(shape), results)

\* an object schema that stops at the first property that fails
ZodObjectFirstIssue(shape, results) ==
    IF \A key \in DOMAIN results : results[key].status = "valid"
    THEN Valid([key \in DOMAIN results |-> results[key].value])
    ELSE Invalid(FirstIssues(shape, results))

\* z.object: every property of the shape is parsed (results); the object is
\* valid when all of them are, and its issues are those of all of them
ZodObject(shape, results) ==
    IF \A key \in DOMAIN results : results[key].status = "valid"
    THEN Valid([key \in DOMAIN results |-> results[key].value])
    ELSE Invalid(CollectIssues(shape, results))

databaseSchema(input, path) ==
    ZodObject(<<"host", "database", "password", "port", "username">>,
              [host |-> NonEmptyString(input.host, Append(path, "host")),
               database |-> NonEmptyString(input.database, Append(path, "database")),
               password |-> NonEmptyString(input.password, Append(path, "password")),
               port |-> ZodCoerceNumber(DatabasePortChecks, input.port, Append(path, "port")),
               username |-> NonEmptyString(input.username, Append(path, "username"))])

configSchema(input) ==
    ZodObject(<<"env", "port", "database">>,
              [env |-> environmentSchema(input.env, <<"env">>),
               port |-> ZodCoerceNumber(PortChecks, input.port, <<"port">>),
               database |-> databaseSchema(input.database, <<"database">>)])

-----------------------------------------------------------------------------
(* config.factory.ts *)

RecognisedKeys ==
    {"NODE_ENV", "PORT", "DATABASE_HOST", "DATABASE_PORT",
     "DATABASE_USERNAME", "DATABASE_PASSWORD", "DATABASE_NAME"}

\* process.env.X || '3000': a variable that is not set falls back to a default
ProcessEnvOrDefault(e, key) ==
    IF key \in DOMAIN e THEN Defined(e[key]) ELSE Defined(<<"3", "0", "0", "0">>)

\* process.env.X: the string, or undefined when X is not set
ProcessEnv(e, key) == IF key \in DOMAIN e THEN Defined(e[key]) ELSE Undefined

\* the object literal with the username and password variables exchanged
ConfigInputSwapped(e) ==
    [env |-> ProcessEnv(e, "NODE_ENV"),
     port |-> ProcessEnv(e, "PORT"),
     database |-> [host |-> ProcessEnv(e, "DATABASE_HOST"),
                   port |-> ProcessEnv(e, "DATABASE_PORT"),
                   username |-> ProcessEnv(e, "DATABASE_PASSWORD"),
                   password |-> ProcessEnv(e, "DATABASE_USERNAME"),
                   database |-> ProcessEnv(e, "DATABASE_NAME")]]

\* the object literal handed to safeParse
ConfigInput(e) ==
    [env |-> ProcessEnv(e, "NODE_ENV"),
     port |-> ProcessEnv(e, "PORT"),
     database |-> [host |-> ProcessEnv(e, "DATABASE_HOST"),
                   port |-> ProcessEnv(e, "DATABASE_PORT"),
                   username |-> ProcessEnv(e, "DATABASE_USERNAME"),
                   password |-> ProcessEnv(e, "DATABASE_PASSWORD"),
                   database |-> ProcessEnv(e, "DATABASE_NAME")]]

NoException == [none |-> TRUE]

\* new ConfigException(`Configuration file error: ${result.error.message}`);
\* the message of a ZodError is the JSON text of its issues
ConfigException(issues) ==
    [name |-> "ConfigException",
     message |-> [prefix |-> "Configuration file error: ", issues |-> issues]]

Returned(value) == [threw |-> FALSE, value |-> value, exception |-> NoException]

Threw(exception) == [threw |-> TRUE, value |-> NoValue, exception |-> exception]

\* if (!result.success) throw new ConfigException(...); return result.data
Outcome(result) ==
    IF result.status # "valid" THEN Threw(ConfigException(result.issues))
    ELSE Returned(result.value)

\* a factory whose result also carries a variable outside the schema
configFactoryPassthrough(e) ==
    IF configSchema(ConfigInput(e)).status # "valid"
    THEN Outcome(configSchema(ConfigInput(e)))
    ELSE Returned([env |-> configSchema(ConfigInput(e)).value.env,
                   port |-> configSchema(ConfigInput(e)).value.port,
                   database |-> configSchema(ConfigInput(e)).value.database,
                   TZ |-> ProcessEnv(e, "TZ")])

configFactory(e) == Outcome(configSchema(ConfigInput(e)))

-----------------------------------------------------------------------------
(* config.service.ts *)

\* a lookup that finds "port" in the nested database object
ConfigServiceGetNested(config, key) ==
    IF key = "port" THEN config.database.port ELSE config[key]

\* this.configService.get(key, { infer: true }): the property of the
\* configuration that the load factory returned
ConfigServiceGet(config, key) == config[key]

ConfigKeys == {"env", "port", "database"}

-----------------------------------------------------------------------------
(* The environments the process is started in *)

Unset == <<"unset">>

NodeEnvInputs ==
    {Unset, development, production, <<>>,
     <<"s", "t", "a", "g", "i", "n", "g">>,
     <<"D", "e", "v", "e", "l", "o", "p", "m", "e", "n", "t">>}

PortInputs ==
    {Unset, <<"3", "0", "0", "0">>, <<"-", "1">>, <<"0">>, <<"a", "b", "c">>, <<>>,
     <<"8", ".", "5">>, <<"1", "e", "3">>, <<" ", "8", "0", " ">>,
     <<"0", "x", "1", "F">>, InfinityLiteral}

DatabasePortInputs ==
    {Unset, <<"5", "4", "3", "2">>, <<"5", "4", "3", "2", ".", "5">>, <<"0", ".", "5">>,
     <<"0">>, <<"-", "1">>, <<"a", "b", "c">>, <<>>, <<"0", "5">>}

localhost == <<"l", "o", "c", "a", "l", "h", "o", "s", "t">>

postgres == <<"p", "o", "s", "t", "g", "r", "e", "s">>

secret == <<"s", "3", "c", "r", "3", "t">>

appdb == <<"a", "p", "p">>

OtherKey == "TZ"

OtherInputs == {Unset, <<"U", "T", "C">>, <<"3", "0", "0", "0">>}

\* what each variable may hold; Unset stands for a variable that is not set
Inputs(key) ==
    CASE key = "NODE_ENV" -> NodeEnvInputs
      [] key = "PORT" -> PortInputs
      [] key = "DATABASE_PORT" -> DatabasePortInputs
      [] key = "DATABASE_HOST" -> {Unset, <<>>, localhost}
      [] key = "DATABASE_USERNAME" -> {Unset, <<>>, postgres}
      [] key = "DATABASE_PASSWORD" -> {Unset, <<>>, secret}
      [] key = "DATABASE_NAME" -> {Unset, <<>>, appdb}
      [] key = OtherKey -> OtherInputs

\* process.env with the variables of assignment a that are set
Environment(a) == [key \in {k \in DOMAIN a : a[k] # Unset} |-> a[key]]

\* every environment over the seven recognised variables
Environments ==
    {Environment([NODE_ENV |-> a, PORT |-> b, DATABASE_HOST |-> c, DATABASE_PORT |-> d,
                  DATABASE_USERNAME |-> f, DATABASE_PASSWORD |-> g, DATABASE_NAME |-> h]) :
        a \in Inputs("NODE_ENV"), b \in Inputs("PORT"), c \in Inputs("DATABASE_HOST"),
        d \in Inputs("DATABASE_PORT"), f \in Inputs("DATABASE_USERNAME"),
        g \in Inputs("DATABASE_PASSWORD"), h \in Inputs("DATABASE_NAME")}

\* the .env file of the README
ExampleEnvironment ==
    [NODE_ENV |-> development, PORT |-> <<"3", "0", "0", "0">>,
     DATABASE_HOST |-> localhost, DATABASE_PORT |-> <<"5", "4", "3", "2">>,
     DATABASE_USERNAME |-> postgres, DATABASE_PASSWORD |-> postgres,
     DATABASE_NAME |-> postgres]

\* e with variable key set to value, or removed when value is Unset
SetVariable(e, key, value) ==
    Environment([k \in DOMAIN e \cup {key} |-> IF k = key THEN value ELSE e[k]])

\* the README's environment with at most one recognised variable changed
NearExampleEnvironments ==
    UNION {{SetVariable(ExampleEnvironment, key, value) : value \in Inputs(key)} :
              key \in RecognisedKeys}

-----------------------------------------------------------------------------
(* main.ts: bootstrap *)

NoConfig == [none |-> TRUE]

NoGet == [none |-> TRUE]

NoPort == [none |-> TRUE]

Init ==
    /\ env \in Environments
    /\ pc = "start"
    /\ host = NoConfig
    /\ thrown = NoException
    /\ loads = <<>>
    /\ logged = <<>>
    /\ listenPort = NoPort
    /\ lastGet = NoGet
    /\ gets = 0

\* one invocation of configFactory in environment e, as recorded in loads
Invocation(e) == [env |-> e, outcome |-> configFactory(e)]

\* await NestFactory.create(AppModule): ConfigModule's load factory runs;
\* what it returns becomes the configuration, what it throws ends bootstrap
\* a bootstrap that recovers from the exception with the README's values
CreatedWithFallback(call) ==
    /\ loads' = Append(loads, call)
    /\ thrown' = thrown
    /\ pc' = "created"
    /\ host' = IF call.outcome.threw
               THEN configFactory(ExampleEnvironment).value
               ELSE call.outcome.value

Created(call) ==
    /\ loads' = Append(loads, call)
    /\ IF call.outcome.threw
       THEN /\ thrown' = call.outcome.exception
            /\ pc' = "aborted"
            /\ host' = host
       ELSE /\ host' = call.outcome.value
            /\ pc' = "created"
            /\ thrown' = thrown

Create ==
    /\ pc = "start"
    /\ Created(Invocation(env))
    /\ UNCHANGED <<env, logged, listenPort, lastGet, gets>>

\* Logger.debug(configService.get(key), ...)
Log(key, from, to) ==
    /\ pc = from
    /\ logged' = Append(logged, [key |-> key, value |-> ConfigServiceGet(host, key)])
    /\ pc' = to
    /\ UNCHANGED <<env, host, thrown, loads, listenPort, lastGet, gets>>

LogEnv == Log("env", "created", "loggedEnv")

LogPort == Log("port", "loggedEnv", "loggedPort")

LogDatabase == Log("database", "loggedPort", "loggedDatabase")

\* await app.listen(configService.get('port'))
Listen ==
    /\ pc = "loggedDatabase"
    /\ listenPort' = ConfigServiceGet(host, "port")
    /\ pc' = "listening"
    /\ UNCHANGED <<env, host, thrown, loads, logged, lastGet, gets>>

\* a consumer reads a field through the injected ConfigService
Get ==
    /\ pc = "listening"
    /\ gets < MaxGets
    /\ \E key \in ConfigKeys :
          lastGet' = [key |-> key, value |-> ConfigServiceGet(host, key)]
    /\ gets' = gets + 1
    /\ UNCHANGED <<env, pc, host, thrown, loads, logged, listenPort>>

Next == Create \/ LogEnv \/ LogPort \/ LogDatabase \/ Listen \/ Get

Spec == Init /\ [][Next]_vars

-----------------------------------------------------------------------------
(* The loader alone: configFactory invoked repeatedly while variables it   *)
(* does not read come and go                                               *)

LoaderInit ==
    /\ env \in NearExampleEnvironments
    /\ pc = "start"
    /\ host = NoConfig
    /\ thrown = NoException
    /\ loads = <<>>
    /\ logged = <<>>
    /\ listenPort = NoPort
    /\ lastGet = NoGet
    /\ gets = 0

\* configFactory(): reads process.env, assigns nothing
Load ==
    /\ Len(loads) < MaxLoads
    /\ loads' = Append(loads, Invocation(env))
    /\ UNCHANGED <<env, pc, host, thrown, logged, listenPort, lastGet, gets>>

\* the surroundings set or unset a variable configFactory does not read
SetOther ==
    /\ \E value \in Inputs(OtherKey) :
          /\ env' = SetVariable(env, OtherKey, value)
          /\ env' # env
    /\ UNCHANGED <<pc, host, thrown, loads, logged, listenPort, lastGet, gets>>

LoaderNext == Load \/ SetOther

LoaderSpec == LoaderInit /\ [][LoaderNext]_vars

-----------------------------------------------------------------------------
(* Vocabulary of the properties *)

\* the field of Config that each recognised variable feeds
FieldPath(key) ==
    CASE key = "NODE_ENV" -> <<"env">>
      [] key = "PORT" -> <<"port">>
      [] key = "DATABASE_HOST" -> <<"database", "host">>
      [] key = "DATABASE_PORT" -> <<"database", "port">>
      [] key = "DATABASE_USERNAME" -> <<"database", "username">>
      [] key = "DATABASE_PASSWORD" -> <<"database", "password">>
      [] key = "DATABASE_NAME" -> <<"database", "database">>

\* the value of a string of decimal digits, read from the left
RECURSIVE DecimalValue(_, _)
DecimalValue(s, acc) ==
    IF s = <<>> THEN acc
    ELSE DecimalValue(Tail(s),
                      acc * 10 + (CHOOSE d \in 0..9 :
                                     Head(s) = <<"0", "1", "2", "3", "4", "5", "6", "7", "8", "9">>[d + 1]))

IsPositiveIntegerString(s) ==
    /\ s # <<>>
    /\ \A j \in 1..Len(s) : s[j] \in {"0", "1", "2", "3", "4", "5", "6", "7", "8", "9"}
    /\ DecimalValue(s, 0) > 0

\* the number that is the integer i
Integer(i) == [k |-> "fin", m |-> i, e |-> 0]

IsPositiveInteger(n) == n.k = "fin" /\ n.e = 0 /\ n.m > 0

AtLeastOne(n) == (n.k = "inf" /\ n.m > 0) \/ (n.k = "fin" /\ n.m >= Pow(10, n.e))

\* the issues an invocation reported: those of the exception's message
Reported(call) ==
    IF call.outcome.threw THEN call.outcome.exception.message.issues ELSE <<>>

Mentions(call, path) == \E i \in 1..Len(Reported(call)) : Reported(call)[i].path = path

ThrewConfigException(call) ==
    call.outcome.threw /\ call.outcome.exception.name = "ConfigException"

\* the variables of e that the schema rejects: unset, or not what its field allows
Rejected(e) ==
    {key \in RecognisedKeys :
        \/ key \notin DOMAIN e
        \/ key = "NODE_ENV" /\ e[key] \notin {development, production}
        \/ key = "PORT" /\ ~IsPositiveInteger(StringToNumber(e[key]))
        \/ key = "DATABASE_PORT" /\ ~AtLeastOne(StringToNumber(e[key]))
        \/ key \in {"DATABASE_HOST", "DATABASE_USERNAME", "DATABASE_PASSWORD", "DATABASE_NAME"}
              /\ e[key] = <<>>}

Calls == {loads[i] : i \in 1..Len(loads)}

-----------------------------------------------------------------------------
(* Properties *)

ValidEnvironment(e) ==
    /\ RecognisedKeys \subseteq DOMAIN e
    /\ e["NODE_ENV"] \in {development, production}
    /\ IsPositiveIntegerString(e["PORT"])
    /\ IsPositiveIntegerString(e["DATABASE_PORT"])
    /\ \A key \in {"DATABASE_HOST", "DATABASE_USERNAME", "DATABASE_PASSWORD", "DATABASE_NAME"} :
          e[key] # <<>>

\* C1: in every environment where NODE_ENV is development or production, PORT
\* and DATABASE_PORT are strings of positive integers and the four database
\* strings are non-empty, configFactory returns a config whose strings equal
\* the inputs and whose ports are the integer values of the input strings.
ValidEnvironmentLoads ==
    \A call \in Calls :
        ValidEnvironment(call.env) =>
            /\ ~call.outcome.threw
            /\ call.outcome.value.env = call.env["NODE_ENV"]
            /\ call.outcome.value.port = Integer(DecimalValue(call.env["PORT"], 0))
            /\ call.outcome.value.database.host = call.env["DATABASE_HOST"]
            /\ call.outcome.value.database.port = Integer(DecimalValue(call.env["DATABASE_PORT"], 0))
            /\ call.outcome.value.database.username = call.env["DATABASE_USERNAME"]
            /\ call.outcome.value.database.password = call.env["DATABASE_PASSWORD"]
            /\ call.outcome.value.database.database = call.env["DATABASE_NAME"]

ValidEnvironmentLoaded ==
    \E call \in Calls :
        /\ ValidEnvironment(call.env)
        /\ call.env["PORT"] = <<"3", "0", "0", "0">>
        /\ call.env["DATABASE_PORT"] = <<"5", "4", "3", "2">>
        /\ ~call.outcome.threw
        /\ call.outcome.value.port = Integer(3000)
        /\ call.outcome.value.database.port = Integer(5432)

\* C2: whenever validation fails configFactory throws a ConfigException, and
\* its one message describes every field that failed, not only the first.
FailureReportsEveryField ==
    \A call \in Calls :
        Rejected(call.env) # {} =>
            /\ ThrewConfigException(call)
            /\ call.outcome.value = NoValue
            /\ \A key \in Rejected(call.env) : Mentions(call, FieldPath(key))

SeveralFieldsReported ==
    \E call \in Calls :
        /\ Cardinality(Rejected(call.env)) >= 3
        /\ ThrewConfigException(call)
        /\ \A key \in Rejected(call.env) : Mentions(call, FieldPath(key))

\* the config satisfies every constraint the schema puts on its fields
FullyValid(config) ==
    /\ config.env \in {development, production}
    /\ IsPositiveInteger(config.port)
    /\ AtLeastOne(config.database.port)
    /\ config.database.host # <<>>
    /\ config.database.username # <<>>
    /\ config.database.password # <<>>
    /\ config.database.database # <<>>

\* C3: configFactory runs exactly once during bootstrap, before app.listen;
\* app.listen is reached only after validation fully succeeded; when validation
\* fails nothing recovers from the ConfigException, bootstrap aborts and the
\* application never logs, listens or serves with an invalid or partial config.
ListenOnlyAfterValidation ==
    /\ pc = "start" => loads = <<>> /\ host = NoConfig /\ listenPort = NoPort
    /\ pc # "start" => Len(loads) = 1 /\ loads[1].env = env
    /\ pc = "aborted" =>
          /\ ThrewConfigException(loads[1])
          /\ thrown = loads[1].outcome.exception
          /\ host = NoConfig /\ logged = <<>> /\ listenPort = NoPort /\ lastGet = NoGet
    /\ pc \notin {"start", "aborted"} =>
          /\ ~loads[1].outcome.threw
          /\ Rejected(env) = {}
          /\ thrown = NoException
          /\ host = loads[1].outcome.value
          /\ FullyValid(host)
    /\ listenPort # NoPort => pc = "listening" /\ listenPort = host.port
    /\ pc = "listening" => listenPort # NoPort

BootstrapAborted ==
    /\ pc = "aborted"
    /\ Len(loads) = 1
    /\ thrown.name = "ConfigException"
    /\ Len(thrown.message.issues) >= 1
    /\ listenPort = NoPort

\* C4: when any of the seven recognised keys is absent from the environment,
\* loading fails whatever the other keys hold, and the error message references
\* the field of that key; no missing key is replaced by a default.
MissingKeyFails ==
    \A call \in Calls :
        \A key \in RecognisedKeys :
            key \notin DOMAIN call.env =>
                /\ ThrewConfigException(call)
                /\ Mentions(call, FieldPath(key))

MissingPasswordReported ==
    \E call \in Calls :
        /\ Rejected(call.env) = {"DATABASE_PASSWORD"}
        /\ "DATABASE_PASSWORD" \notin DOMAIN call.env
        /\ ThrewConfigException(call)
        /\ Mentions(call, <<"database", "password">>)

\* C5: DATABASE_PORT is coerced to a number that must be a positive integer:
\* loading fails for every DATABASE_PORT whose coerced number is not an
\* integer or is not positive, exactly as for the top-level port.
DatabasePortPositiveInteger ==
    \A call \in Calls :
        ("DATABASE_PORT" \in DOMAIN call.env
            /\ ~IsPositiveInteger(StringToNumber(call.env["DATABASE_PORT"])))
        => call.outcome.threw

\* C6: PORT is coerced to a number and loading succeeds for that field if and
\* only if the coerced value is a positive integer; "-1", "0", "abc" and ""
\* each make loading fail.
PortPositiveInteger ==
    \A call \in Calls :
        "PORT" \in DOMAIN call.env =>
            /\ (Rejected(call.env) \subseteq {"PORT"}) =>
                  (~call.outcome.threw <=> IsPositiveInteger(StringToNumber(call.env["PORT"])))
            /\ (call.outcome.threw /\ Mentions(call, <<"port">>))
                  <=> ~IsPositiveInteger(StringToNumber(call.env["PORT"]))
            /\ call.env["PORT"] \in {<<"-", "1">>, <<"0">>, <<"a", "b", "c">>, <<>>}
                  => call.outcome.threw

FractionalPortRejected ==
    \E call \in Calls :
        /\ Rejected(call.env) = {"PORT"}
        /\ "PORT" \in DOMAIN call.env
        /\ call.env["PORT"] = <<"8", ".", "5">>
        /\ call.outcome.threw
        /\ Mentions(call, <<"port">>)

\* C7: the env field is accepted if and only if NODE_ENV is exactly
\* "development" or "production"; any other value makes loading fail.
EnvironmentEnumerated ==
    \A call \in Calls :
        "NODE_ENV" \in DOMAIN call.env =>
            /\ (call.outcome.threw /\ Mentions(call, <<"env">>))
                  <=> call.env["NODE_ENV"] \notin {development, production}
            /\ ~call.outcome.threw => call.outcome.value.env \in {development, production}

StagingRejected ==
    \E call \in Calls :
        /\ Rejected(call.env) = {"NODE_ENV"}
        /\ "NODE_ENV" \in DOMAIN call.env
        /\ call.env["NODE_ENV"] = <<"s", "t", "a", "g", "i", "n", "g">>
        /\ call.outcome.threw
        /\ Mentions(call, <<"env">>)

DatabaseStringKeys ==
    {"DATABASE_HOST", "DATABASE_USERNAME", "DATABASE_PASSWORD", "DATABASE_NAME"}

\* C8: if any of DATABASE_HOST, DATABASE_USERNAME, DATABASE_PASSWORD or
\* DATABASE_NAME is the empty string loading fails, so every config that
\* loading returns has four database strings of length at least 1.
DatabaseStringsNonEmpty ==
    \A call \in Calls :
        /\ (\E key \in DatabaseStringKeys : key \in DOMAIN call.env /\ call.env[key] = <<>>)
              => call.outcome.threw
        /\ ~call.outcome.threw =>
              /\ Len(call.outcome.value.database.host) >= 1
              /\ Len(call.outcome.value.database.username) >= 1
              /\ Len(call.outcome.value.database.password) >= 1
              /\ Len(call.outcome.value.database.database) >= 1

EmptyHostRejected ==
    \E call \in Calls :
        /\ Rejected(call.env) = {"DATABASE_HOST"}
        /\ "DATABASE_HOST" \in DOMAIN call.env
        /\ call.env["DATABASE_HOST"] = <<>>
        /\ call.outcome.threw
        /\ Mentions(call, <<"database", "host">>)

IsNumber(v) == DOMAIN v = {"k", "m", "e"} /\ v.k \in {"fin", "inf"}

\* C9: after a successful startup, in every later state and after any number
\* of accessor calls, ConfigService.get(k) returns exactly the value the loader
\* produced for k at startup, port being a number; get validates and coerces
\* nothing and leaves the validated config unchanged.
GetReturnsLoadedValue ==
    /\ \A i \in 1..Len(logged) :
          logged[i].value = loads[1].outcome.value[logged[i].key]
    /\ listenPort # NoPort =>
          listenPort = loads[1].outcome.value.port /\ IsNumber(listenPort)
    /\ lastGet # NoGet =>
          /\ lastGet.value = loads[1].outcome.value[lastGet.key]
          /\ lastGet.key = "port" => IsNumber(lastGet.value)
          /\ host = loads[1].outcome.value

PortReadRepeatedly ==
    /\ pc = "listening"
    /\ gets >= 2
    /\ lastGet # NoGet
    /\ lastGet.key = "port"
    /\ lastGet.value = Integer(3000)
    /\ host.database.port = Integer(5432)

AgreeOnRecognisedKeys(e1, e2) ==
    /\ DOMAIN e1 \cap RecognisedKeys = DOMAIN e2 \cap RecognisedKeys
    /\ \A key \in DOMAIN e1 \cap RecognisedKeys : e1[key] = e2[key]

====
